---- MODULE Spec2Model ----
(***************************************************************************)
(* Model of xpctrl.py, the X-Plane input-profile store: save, load, list,  *)
(* remove and launch, over a file system made of the two live preference   *)
(* files of the simulator and one directory per saved profile.             *)
(*                                                                         *)
(* A file is its on-disk character sequence.  The preference files are     *)
(* opened in Python text mode, so reading translates every line end to     *)
(* "\n" (universal newlines) and writing translates "\n" to os.linesep;    *)
(* the key-bindings file is copied verbatim by shutil.copy2.               *)
(***************************************************************************)
EXTENDS Naturals, Sequences, FiniteSets, TLC

VARIABLES
    SavePathIsDir,  \* whether the directory XPCTRL_DIR exists
    SavePath,       \* profile name -> the subdirectory SavePath / name
    KeysFile,       \* the live key-bindings file  PrefsPath / KEYS_FILE
    PrefsFile,      \* the live preferences file   PrefsPath / PREFS_FILE
    linesep,        \* os.linesep of the platform the script runs on
    call,           \* the last call: operation, argument, exception, return value
    pc,             \* position inside launch(): "idle", "chdir", "run", "wait"
    cwd,            \* working directory of the process
    xplane,         \* the child process started by subprocess.run
    snap,           \* history: the live files read by the last successful save
    before,         \* history: the profile directory as the last save found it
    saved,          \* history: names saved and not removed since
    allOk           \* history: every save and remove call so far succeeded

vars == <<SavePathIsDir, SavePath, KeysFile, PrefsFile, linesep, call,
          pc, cwd, xplane, snap, before, saved, allOk>>

fsvars == <<SavePathIsDir, SavePath, KeysFile, PrefsFile>>

-----------------------------------------------------------------------------
(* Characters and constants of the script *)

LF == "\n"
CR == "\r"

JOY_PREFIX == <<"_", "j", "o", "y">>

Names == {"a", "b"}

NoName == "-"

-----------------------------------------------------------------------------
(* Files and directories *)

NoFile == [exists |-> FALSE, data |-> <<>>]

FileOf(d) == [exists |-> TRUE, data |-> d]

NoDir == [dir |-> FALSE, keys |-> NoFile, prefs |-> NoFile]

EmptyDir == [dir |-> TRUE, keys |-> NoFile, prefs |-> NoFile]

\* no successful save recorded
NoSnap == [name |-> NoName, keys |-> NoFile, prefs |-> NoFile]

-----------------------------------------------------------------------------
(* Text-mode I/O of the preference files *)

RECURSIVE read_text(_)
\* open(mode='r'): "\r\n" and a lone "\r" are read as "\n"
read_text(d) ==
    IF d = <<>> THEN <<>>
    ELSE IF d[1] = CR
         THEN IF Len(d) >= 2 /\ d[2] = LF
              THEN <<LF>> \o read_text(SubSeq(d, 3, Len(d)))
              ELSE <<LF>> \o read_text(Tail(d))
         ELSE <<d[1]>> \o read_text(Tail(d))

RECURSIVE write_text(_, _)
\* open(mode='w'): every "\n" is written as os.linesep
write_text(t, sep) ==
    IF t = <<>> THEN <<>>
    ELSE IF t[1] = LF
         THEN sep \o write_text(Tail(t), sep)
         ELSE <<t[1]>> \o write_text(Tail(t), sep)

\* index of the character that ends the first line of a non-empty text
eol(t) ==
    IF \E i \in 1..Len(t) : t[i] = LF
    THEN CHOOSE i \in 1..Len(t) : t[i] = LF /\ \A j \in 1..(i - 1) : t[j] # LF
    ELSE Len(t)

RECURSIVE readlines(_)
\* the lines of a text, each with its "\n"; the last one may have none
readlines(t) ==
    IF t = <<>> THEN <<>>
    ELSE <<SubSeq(t, 1, eol(t))>> \o readlines(SubSeq(t, eol(t) + 1, Len(t)))

RECURSIVE writelines(_)
\* the lines one after the other; nothing is added between them
writelines(ls) ==
    IF ls = <<>> THEN <<>> ELSE Head(ls) \o writelines(Tail(ls))

startswith(line, prefix) ==
    /\ Len(line) >= Len(prefix)
    /\ SubSeq(line, 1, Len(prefix)) = prefix

\* variant: the test stops one character short of the marker
IsJoy_short(line) == startswith(line, SubSeq(JOY_PREFIX, 1, Len(JOY_PREFIX) - 1))

IsJoy(line) == startswith(line, JOY_PREFIX)

IsNotJoy(line) == ~startswith(line, JOY_PREFIX)

joylines(ls) == SelectSeq(ls, IsJoy)

nonjoylines(ls) == SelectSeq(ls, IsNotJoy)

\* src.readlines() of a file opened with mode='r'
Lines(f) == readlines(read_text(f.data))

-----------------------------------------------------------------------------
(* Contents the simulator or the user may give the live files *)

NumLines == 3

\* the longest live preferences file the model lets load() write
MaxLen == 24

JoyA == <<"_", "j", "o", "y", "A">>
JoyB == <<"_", "j", "o", "y", "B">>
Gen == <<"g">>
NearMiss == <<"_", "j", "o">>

Patterns == << <<JoyA, Gen, JoyB>>, <<JoyB, JoyA, NearMiss>> >>

RECURSIVE PatternText(_, _, _)
\* the first k lines of pattern p (repeated as needed), the last one ended
\* by "\n" iff final
PatternText(p, k, final) ==
    IF k = 0 THEN <<>>
    ELSE PatternText(p, k - 1, TRUE)
         \o p[((k - 1) % Len(p)) + 1]
         \o (IF final THEN <<LF>> ELSE <<>>)

\* no file, an empty file, or NumLines lines with or without a final "\n"
PrefsPool ==
    {NoFile, FileOf(<<>>)} \cup
    { FileOf(PatternText(Patterns[i], NumLines, final)) :
        i \in 1..Len(Patterns), final \in BOOLEAN }

KeysPool == {NoFile, FileOf(<<"k", "1">>), FileOf(<<"k", "2">>)}

-----------------------------------------------------------------------------
(* Results of a call *)

\* no exception: the call returned
Ok == [type |-> "none", arg |-> "-"]

\* raise RuntimeError("Name does not exist: %r" % name)
RuntimeError(name) == [type |-> "RuntimeError", arg |-> name]

\* raised by open(), copy2() and iterdir() on a path that does not exist
FileNotFoundError(path) == [type |-> "FileNotFoundError", arg |-> path]

\* raised by mkdir() on a directory that exists
FileExistsError(path) == [type |-> "FileExistsError", arg |-> path]

Called(op, name, exc, ret) == [op |-> op, name |-> name, exc |-> exc, ret |-> ret]

-----------------------------------------------------------------------------
Init ==
    /\ SavePathIsDir \in BOOLEAN
    /\ SavePath = [n \in Names |-> NoDir]
    /\ KeysFile \in KeysPool
    /\ PrefsFile \in PrefsPool
    /\ linesep \in {<<LF>>, <<CR, LF>>}
    /\ call = Called("init", NoName, Ok, {})
    /\ pc = "idle"
    /\ cwd = "start"
    /\ xplane = "off"
    /\ snap = NoSnap
    /\ before = NoDir
    /\ saved = {}
    /\ allOk = TRUE

-----------------------------------------------------------------------------
(* Primitives of pathlib and shutil *)

\* Path.mkdir(parents=True) on the directory d
mkdir(d) ==
    IF d.dir THEN [d |-> d, exc |-> FileExistsError("DstPath")]
    ELSE [d |-> EmptyDir, exc |-> Ok]

\* variant: no except clause, the exception of mkdir propagates
except_nothing(exc) == exc

\* try: ... except FileExistsError: pass
except_FileExistsError(exc) == IF exc.type = "FileExistsError" THEN Ok ELSE exc

\* shutil.copy2(src, dst): dst becomes a verbatim copy of the file src,
\* whose path is srcpath
copy2(src, dst, srcpath) ==
    IF src.exists THEN [f |-> src, exc |-> Ok]
    ELSE [f |-> dst, exc |-> FileNotFoundError(srcpath)]

\* variant: the files are deleted, the directory is left behind
rmtree_keeps_dir(d) == IF d.dir THEN EmptyDir ELSE NoDir

\* shutil.rmtree(d)
rmtree(d) == NoDir

-----------------------------------------------------------------------------
(* save(name): the profile directory and the exception it ends with *)

\* variant: the preferences file is opened before the key file is copied
save_result_prefs_first(name) ==
    LET made == mkdir(SavePath[name])
        keys == copy2(KeysFile, made.d.keys, "KeysFile")
        kept == [made.d EXCEPT !.keys = keys.f]
        joy  == joylines(Lines(PrefsFile))
    IN  IF except_FileExistsError(made.exc) # Ok
        THEN [d |-> SavePath[name], exc |-> made.exc]
        ELSE IF ~PrefsFile.exists
        THEN [d |-> made.d, exc |-> FileNotFoundError("PrefsFile")]
        ELSE IF keys.exc # Ok
        THEN [d |-> made.d, exc |-> keys.exc]
        ELSE [d |-> [kept EXCEPT !.prefs = FileOf(write_text(writelines(joy), linesep))],
              exc |-> Ok]

save_result(name) ==
    LET made == mkdir(SavePath[name])
        keys == copy2(KeysFile, made.d.keys, "KeysFile")
        kept == [made.d EXCEPT !.keys = keys.f]
        joy  == joylines(Lines(PrefsFile))
    IN  IF except_FileExistsError(made.exc) # Ok
        THEN [d |-> SavePath[name], exc |-> made.exc]
        ELSE IF keys.exc # Ok
        THEN [d |-> made.d, exc |-> keys.exc]
        ELSE IF ~PrefsFile.exists
        THEN [d |-> kept, exc |-> FileNotFoundError("PrefsFile")]
        ELSE [d |-> [kept EXCEPT !.prefs = FileOf(write_text(writelines(joy), linesep))],
              exc |-> Ok]

save(name) ==
    LET r == save_result(name) IN
    /\ pc = "idle"
    /\ SavePathIsDir' = (SavePathIsDir \/ r.d.dir)
    /\ SavePath' = [SavePath EXCEPT ![name] = r.d]
    /\ call' = Called("save", name, r.exc, {})
    /\ UNCHANGED <<KeysFile, PrefsFile, linesep, pc, cwd, xplane>>

-----------------------------------------------------------------------------
(* load(name): the live files and the exception it ends with *)

load_result(name) ==
    LET src  == SavePath[name]
        keys == copy2(src.keys, KeysFile, "KeysSrcFile")
        joy  == joylines(Lines(src.prefs))
        nonjoy == nonjoylines(Lines(PrefsFile))
    IN  IF ~src.dir
        THEN [keys |-> KeysFile, prefs |-> PrefsFile, exc |-> RuntimeError(name)]
        ELSE IF keys.exc # Ok
        THEN [keys |-> KeysFile, prefs |-> PrefsFile, exc |-> keys.exc]
        ELSE IF ~src.prefs.exists
        THEN [keys |-> keys.f, prefs |-> PrefsFile,
              exc |-> FileNotFoundError("PrefsSrcFile")]
        ELSE IF ~PrefsFile.exists
        THEN [keys |-> keys.f, prefs |-> PrefsFile,
              exc |-> FileNotFoundError("PrefsFile")]
        ELSE [keys |-> keys.f,
              prefs |-> FileOf(write_text(writelines(nonjoy) \o writelines(joy), linesep)),
              exc |-> Ok]

\* variant: the profile's key file is moved, not copied, into the live directory
load_moves_keys(name) ==
    LET r == load_result(name) IN
    /\ pc = "idle"
    /\ Len(r.prefs.data) <= MaxLen
    /\ KeysFile' = r.keys
    /\ PrefsFile' = r.prefs
    /\ SavePath' = IF SavePath[name].keys.exists
                   THEN [SavePath EXCEPT ![name].keys = NoFile]
                   ELSE SavePath
    /\ call' = Called("load", name, r.exc, {})
    /\ UNCHANGED <<SavePathIsDir, linesep, pc, cwd, xplane>>

load(name) ==
    LET r == load_result(name) IN
    /\ pc = "idle"
    /\ Len(r.prefs.data) <= MaxLen
    /\ KeysFile' = r.keys
    /\ PrefsFile' = r.prefs
    /\ call' = Called("load", name, r.exc, {})
    /\ UNCHANGED <<SavePathIsDir, SavePath, linesep, pc, cwd, xplane>>

-----------------------------------------------------------------------------
(* list() and remove(name) *)

list_result ==
    IF SavePathIsDir
    THEN [ret |-> {n \in Names : SavePath[n].dir}, exc |-> Ok]
    ELSE [ret |-> {}, exc |-> FileNotFoundError("SavePath")]

list ==
    /\ pc = "idle"
    /\ call' = Called("list", NoName, list_result.exc, list_result.ret)
    /\ UNCHANGED <<SavePathIsDir, SavePath, KeysFile, PrefsFile, linesep,
                   pc, cwd, xplane>>

\* variant: no is_dir() test, rmtree ignores a missing directory
remove_result_unchecked(name) == [d |-> rmtree(SavePath[name]), exc |-> Ok]

remove_result(name) ==
    IF ~SavePath[name].dir
    THEN [d |-> SavePath[name], exc |-> RuntimeError(name)]
    ELSE [d |-> rmtree(SavePath[name]), exc |-> Ok]

remove(name) ==
    LET r == remove_result(name) IN
    /\ pc = "idle"
    /\ SavePath' = [SavePath EXCEPT ![name] = r.d]
    /\ call' = Called("remove", name, r.exc, {})
    /\ UNCHANGED <<SavePathIsDir, KeysFile, PrefsFile, linesep, pc, cwd, xplane>>

-----------------------------------------------------------------------------
(* launch(name=None), one step per statement *)

\* variant: the failure of load is swallowed and the launch goes on
launch_load_swallows(name) ==
    LET r == load_result(name) IN
    /\ pc = "idle"
    /\ Len(r.prefs.data) <= MaxLen
    /\ KeysFile' = r.keys
    /\ PrefsFile' = r.prefs
    /\ call' = Called("launch", name, r.exc, {})
    /\ pc' = "chdir"
    /\ UNCHANGED <<SavePathIsDir, SavePath, linesep, cwd, xplane>>

launch_load(name) ==
    LET r == load_result(name) IN
    /\ pc = "idle"
    /\ Len(r.prefs.data) <= MaxLen
    /\ KeysFile' = r.keys
    /\ PrefsFile' = r.prefs
    /\ call' = Called("launch", name, r.exc, {})
    /\ pc' = IF r.exc = Ok THEN "chdir" ELSE "idle"
    /\ UNCHANGED <<SavePathIsDir, SavePath, linesep, cwd, xplane>>

launch_none ==
    /\ pc = "idle"
    /\ call' = Called("launch", NoName, Ok, {})
    /\ pc' = "chdir"
    /\ UNCHANGED <<SavePathIsDir, SavePath, KeysFile, PrefsFile, linesep,
                   cwd, xplane>>

launch_chdir ==
    /\ pc = "chdir"
    /\ cwd' = "XPLANE_DIR"
    /\ pc' = "run"
    /\ UNCHANGED <<SavePathIsDir, SavePath, KeysFile, PrefsFile, linesep,
                   call, xplane>>

launch_run ==
    /\ pc = "run"
    /\ xplane' = "running"
    /\ pc' = "wait"
    /\ UNCHANGED <<SavePathIsDir, SavePath, KeysFile, PrefsFile, linesep,
                   call, cwd>>

launch_return ==
    /\ pc = "wait"
    /\ xplane' = "off"
    /\ pc' = "idle"
    /\ UNCHANGED <<SavePathIsDir, SavePath, KeysFile, PrefsFile, linesep,
                   call, cwd>>

-----------------------------------------------------------------------------
(* The simulator or the user rewrites one of the live files *)

edit_keys(f) ==
    /\ pc \in {"idle", "wait"}
    /\ f # KeysFile
    /\ KeysFile' = f
    /\ call' = Called("edit", NoName, Ok, {})
    /\ UNCHANGED <<SavePathIsDir, SavePath, PrefsFile, linesep,
                   pc, cwd, xplane>>

edit_prefs(f) ==
    /\ pc \in {"idle", "wait"}
    /\ f # PrefsFile
    /\ PrefsFile' = f
    /\ call' = Called("edit", NoName, Ok, {})
    /\ UNCHANGED <<SavePathIsDir, SavePath, KeysFile, linesep,
                   pc, cwd, xplane>>

-----------------------------------------------------------------------------
(* History of the calls, recorded beside the actions *)

hist == <<snap, before, saved, allOk>>

\* the live files as save(name) read them, kept while profile name is the
\* result of that save
record_snap(name) ==
    snap' = IF call'.op = "save" /\ call'.exc = Ok
            THEN [name |-> name, keys |-> KeysFile, prefs |-> PrefsFile]
            ELSE IF snap.name = name THEN NoSnap ELSE snap

\* the directory of profile name as a save or remove call found it
record_before(name) == before' = SavePath[name]

\* the names saved and not removed since, kept while every call succeeded
record_saved(name) ==
    /\ allOk' = (allOk /\ call'.exc = Ok)
    /\ saved' = IF ~allOk' THEN {}
                ELSE IF call'.op = "save" THEN saved \cup {name}
                ELSE saved \ {name}

-----------------------------------------------------------------------------
(* The store operations and edits of the live files, in any order *)

Next ==
    \/ \E n \in Names : save(n) /\ UNCHANGED hist
    \/ \E n \in Names : load(n) /\ UNCHANGED hist
    \/ list /\ UNCHANGED hist
    \/ \E n \in Names : remove(n) /\ UNCHANGED hist
    \/ \E f \in KeysPool : edit_keys(f) /\ UNCHANGED hist
    \/ \E f \in PrefsPool : edit_prefs(f) /\ UNCHANGED hist

Spec == Init /\ [][Next]_vars

(* One save, then edits of the live files and loads: the round trip *)

NextRoundTrip ==
    \/ \E n \in Names : /\ snap = NoSnap
                        /\ save(n)
                        /\ record_snap(n)
                        /\ UNCHANGED <<before, saved, allOk>>
    \/ \E n \in Names : load(n) /\ UNCHANGED hist
    \/ \E f \in KeysPool : edit_keys(f) /\ UNCHANGED hist
    \/ \E f \in PrefsPool : edit_prefs(f) /\ UNCHANGED hist

SpecRoundTrip == Init /\ [][NextRoundTrip]_vars

(* save, remove and list with the history of the names *)

NextStore ==
    \/ \E n \in Names : save(n) /\ record_saved(n) /\ record_before(n)
                        /\ UNCHANGED snap
    \/ \E n \in Names : remove(n) /\ record_saved(n) /\ record_before(n)
                        /\ UNCHANGED snap
    \/ list /\ UNCHANGED hist
    \/ \E f \in KeysPool : edit_keys(f) /\ UNCHANGED hist
    \/ \E f \in PrefsPool : edit_prefs(f) /\ UNCHANGED hist

SpecStore == Init /\ [][NextStore]_vars

(* launch with and without a profile, after saves and edits *)

NextLaunch ==
    \/ \E n \in Names : save(n) /\ UNCHANGED hist
    \/ \E n \in Names : launch_load(n) /\ UNCHANGED hist
    \/ launch_none /\ UNCHANGED hist
    \/ launch_chdir /\ UNCHANGED hist
    \/ launch_run /\ UNCHANGED hist
    \/ launch_return /\ UNCHANGED hist
    \/ \E f \in KeysPool : edit_keys(f) /\ UNCHANGED hist
    \/ \E f \in PrefsPool : edit_prefs(f) /\ UNCHANGED hist

SpecLaunch == Init /\ [][NextLaunch]_vars

-----------------------------------------------------------------------------
(* Vocabulary of the properties: the lines of a preferences file as Python *)
(* reads them, split by the marker tested character by character           *)

HasMarker(line) ==
    /\ Len(line) >= Len(<<"_", "j", "o", "y">>)
    /\ line[1] = "_" /\ line[2] = "j" /\ line[3] = "o" /\ line[4] = "y"

LacksMarker(line) == ~HasMarker(line)

JoyLinesOf(f) == SelectSeq(Lines(f), HasMarker)

OtherLinesOf(f) == SelectSeq(Lines(f), LacksMarker)

Returned(op, name) == call.op = op /\ call.name = name /\ call.exc = Ok

-----------------------------------------------------------------------------
\* C1: every save and every load call, successful or failing, leaves the
\* lines of the live preferences file that do not start with '_joy' the same,
\* in content and order, as before the call (hence so does any finite
\* sequence of such calls), whatever the file's content, a last line without
\* "\n" included.
C1_OtherLinesPreserved ==
    [][call'.op \in {"save", "load"}
        => OtherLinesOf(PrefsFile') = OtherLinesOf(PrefsFile)]_vars

\* C2: a successful load(name) leaves the live preferences file with the
\* lines of the old live file that do not start with '_joy' followed by the
\* lines of the profile's file that start with '_joy', so that the '_joy'
\* lines of the live file are exactly those of the profile.
C2_LoadSplices ==
    [][\A n \in Names :
        call' = Called("load", n, Ok, {})
        => /\ Lines(PrefsFile') = OtherLinesOf(PrefsFile) \o JoyLinesOf(SavePath[n].prefs)
           /\ JoyLinesOf(PrefsFile') = JoyLinesOf(SavePath[n].prefs)]_vars

\* C3: after a successful save(x) of live files K and P, any changes of the
\* live files and a successful load(x), the live key file is K, the '_joy'
\* lines of the live preferences file are those of P, and its other lines
\* are those it had when load was called.
C3_RoundTrip ==
    [][\A n \in Names :
        (snap.name = n /\ call' = Called("load", n, Ok, {}))
        => /\ KeysFile' = snap.keys
           /\ JoyLinesOf(PrefsFile') = JoyLinesOf(snap.prefs)
           /\ OtherLinesOf(PrefsFile') = OtherLinesOf(PrefsFile)]_vars

\* C4: a successful save(name) leaves the profile with a copy of the live
\* key file and a preferences file whose lines are exactly the lines of the
\* live preferences file that start with '_joy', in order; a live file
\* without lines gives an empty profile file.
C4_SaveSelectsJoyLines ==
    [][\A n \in Names :
        call' = Called("save", n, Ok, {})
        => /\ SavePath'[n].dir
           /\ SavePath'[n].keys = KeysFile
           /\ SavePath'[n].prefs.exists
           /\ Lines(SavePath'[n].prefs) = JoyLinesOf(PrefsFile)
           /\ (Lines(PrefsFile) = <<>> => SavePath'[n].prefs.data = <<>>)]_vars

\* a save that selected two '_joy' lines and left out a line starting "_jo"
C4_Witness ==
    \E n \in Names :
        /\ Returned("save", n)
        /\ Len(Lines(SavePath[n].prefs)) = 2
        /\ Len(Lines(PrefsFile)) > 2
        /\ \E i \in 1..Len(Lines(PrefsFile)) :
              /\ ~HasMarker(Lines(PrefsFile)[i])
              /\ Lines(PrefsFile)[i][1] = "_"

\* C5: load(name) and remove(name) of a name without a profile directory
\* raise RuntimeError carrying the name and change neither the live files
\* nor the store.
C5_NotFoundChangesNothing ==
    [][\A n \in Names :
        (~SavePath[n].dir /\ call'.op \in {"load", "remove"} /\ call'.name = n)
        => /\ call'.exc = RuntimeError(n)
           /\ UNCHANGED fsvars]_vars

\* a failed load or remove beside another, stored profile
C5_Witness ==
    \E n, m \in Names :
        /\ call.op \in {"load", "remove"}
        /\ call.name = n
        /\ call.exc = RuntimeError(n)
        /\ ~SavePath[n].dir
        /\ SavePath[m].prefs.exists
        /\ PrefsFile.exists

\* C6: list() changes nothing, and when every save and remove call so far
\* succeeded it returns exactly the names saved and not removed since.
C6_ListReflectsStore ==
    [][call'.op = "list"
        => /\ UNCHANGED fsvars
           /\ (allOk /\ SavePathIsDir
                 => call'.exc = Ok /\ call'.ret = saved)]_vars

\* list() returning one name after the other one was removed
C6_Witness ==
    /\ call.op = "list"
    /\ call.exc = Ok
    /\ allOk
    /\ Cardinality(call.ret) = 1
    /\ before.dir
    /\ \E n \in Names : ~SavePath[n].dir /\ n \notin call.ret

\* C7: save(name) over an existing profile does not raise FileExistsError;
\* it succeeds exactly when both live files can be read, and the profile then
\* holds the live key file and the '_joy' lines of the live preferences file
\* and nothing of what it held before.
C7_SaveOverwrites ==
    \A n \in Names :
        (call.op = "save" /\ call.name = n /\ before.dir)
        => /\ call.exc.type # "FileExistsError"
           /\ (call.exc = Ok) = (KeysFile.exists /\ PrefsFile.exists)
           /\ call.exc = Ok
                => /\ SavePath[n].keys = KeysFile
                   /\ Lines(SavePath[n].prefs) = JoyLinesOf(PrefsFile)

\* a second save that replaced both files of the profile by different ones
C7_Witness ==
    \E n \in Names :
        /\ Returned("save", n)
        /\ before.keys.exists /\ before.keys # SavePath[n].keys
        /\ before.prefs.exists /\ Lines(before.prefs) # <<>>
        /\ Lines(SavePath[n].prefs) # <<>>
        /\ \A i \in 1..Len(Lines(SavePath[n].prefs)) :
              Lines(SavePath[n].prefs)[i] # Lines(before.prefs)[1]

\* C8: launch(name) changes the working directory and starts the simulator
\* only after load(name) has returned; when load raises, the exception ends
\* the launch and nothing is started; launch() without a name changes no
\* live file before the simulator runs.
C8_LaunchLoadsFirst ==
    [][/\ (cwd' # cwd \/ (xplane = "off" /\ xplane' = "running")
                        \/ pc \in {"chdir", "run"})
            => /\ call.op = "launch" /\ call.exc = Ok
               /\ (xplane' = "running") => cwd = "XPLANE_DIR"
       /\ pc \in {"chdir", "run"} => UNCHANGED fsvars
       /\ \A n \in Names :
            (pc = "idle" /\ call'.op = "launch" /\ call'.name = n)
            => IF SavePath[n].dir /\ SavePath[n].keys.exists
                  /\ SavePath[n].prefs.exists /\ PrefsFile.exists
               THEN /\ call'.exc = Ok /\ pc' = "chdir"
                    /\ cwd' = cwd /\ xplane' = xplane
                    /\ KeysFile' = SavePath[n].keys
                    /\ read_text(PrefsFile'.data) =
                         writelines(OtherLinesOf(PrefsFile))
                         \o writelines(JoyLinesOf(SavePath[n].prefs))
               ELSE /\ call'.exc # Ok /\ pc' = "idle"
                    /\ cwd' = cwd /\ xplane' = xplane
       /\ (pc = "idle" /\ call'.op = "launch" /\ call'.name = NoName)
            => /\ UNCHANGED fsvars
               /\ pc' = "chdir"]_vars

\* the simulator running after launch(name) loaded the profile
C8_Witness ==
    \E n \in Names :
        /\ call = Called("launch", n, Ok, {})
        /\ xplane = "running"
        /\ cwd = "XPLANE_DIR"
        /\ KeysFile = SavePath[n].keys
        /\ JoyLinesOf(PrefsFile) # <<>>
        /\ OtherLinesOf(PrefsFile) # <<>>

\* C9: no rollback.  save(name) that copied the key file and cannot read
\* the live preferences file raises and leaves the profile with the new key
\* file and the preferences file it had (none on a first save); load(name)
\* that copied the key file and cannot read the profile's or the live
\* preferences file raises and leaves the live key file replaced and the
\* live preferences file as it was.
C9_NoRollback ==
    [][\A n \in Names :
        /\ (call'.op = "save" /\ call'.name = n
              /\ KeysFile.exists /\ ~PrefsFile.exists)
            => /\ call'.exc = FileNotFoundError("PrefsFile")
               /\ SavePath'[n] = [dir |-> TRUE, keys |-> KeysFile,
                                  prefs |-> SavePath[n].prefs]
        /\ (call'.op = "load" /\ call'.name = n
              /\ SavePath[n].dir /\ SavePath[n].keys.exists
              /\ (~SavePath[n].prefs.exists \/ ~PrefsFile.exists))
            => /\ call'.exc.type = "FileNotFoundError"
               /\ call'.exc.arg \in {"PrefsSrcFile", "PrefsFile"}
               /\ KeysFile' = SavePath[n].keys
               /\ PrefsFile' = PrefsFile]_vars

\* a failed save that left new keys beside old preferences
C9_Witness ==
    \E n \in Names :
        /\ call.op = "save" /\ call.name = n
        /\ call.exc = FileNotFoundError("PrefsFile")
        /\ SavePath[n].keys = KeysFile
        /\ SavePath[n].prefs.exists
        /\ Lines(SavePath[n].prefs) # <<>>

\* C10: save(n) and remove(n), successful or not, change neither live file
\* nor any profile other than n; load(n) and list() change no profile.
C10_Frame ==
    [][/\ call'.op \in {"save", "remove"}
            => /\ KeysFile' = KeysFile
               /\ PrefsFile' = PrefsFile
               /\ \A m \in Names \ {call'.name} : SavePath'[m] = SavePath[m]
       /\ call'.op \in {"load", "list"}
            => /\ SavePath' = SavePath
               /\ SavePathIsDir' = SavePathIsDir]_vars

\* a successful load from a store holding two different profiles
C10_Witness ==
    \E n, m \in Names :
        /\ Returned("load", n)
        /\ SavePath[n].keys = KeysFile
        /\ SavePath[m].prefs.exists
        /\ SavePath[m].keys # SavePath[n].keys
        /\ Lines(SavePath[m].prefs) # Lines(SavePath[n].prefs)

====
